---- MODULE Spec2Model ----
(***************************************************************************)
(* Model of the hybrid extraction engine (src/src/lib/scraping):           *)
(* HybridScrapingEngine.processJob and the per-URL pipeline it drives      *)
(* (ProprietaryWebParser.extractFromUrl, shouldUseLLM, hybridExtraction,   *)
(* llmOnlyExtraction, LLMExtractor.extractWithFallback), together with the *)
(* job record, extraction results and page logs kept by the persistence    *)
(* collaborator (blink.db).                                                *)
(*                                                                         *)
(* Strings are sequences of one-character strings, so that toLowerCase,    *)
(* join and includes are computed as the code computes them.  A confidence *)
(* is an exact rational [num, den]; on the built-in rule sets the double   *)
(* arithmetic of the code agrees with the exact comparisons at 0.3, 0.5    *)
(* and 0.6.  A failing external call (page fetch, completion, persistence) *)
(* throws and has no effect on the collaborator's state.                   *)
(*                                                                         *)
(* Spec is a whole job; SpecUrl is one processUrl call; SpecMerge is one   *)
(* mergeResults call on every pair of field maps; SpecExtract is one call  *)
(* of either extractor (built-in rule sets and caller-supplied rule lists, *)
(* every object the completion may return); SpecDetect is one              *)
(* detectRuleSet call on sample URLs and texts; SpecRule is one call of    *)
(* the title or the price rule; SpecExpand is one expandUrls call.         *)
(***************************************************************************)
EXTENDS Integers, Sequences, FiniteSets, TLC

(* ---------------------------------------------------------------------- *)
(* Bounds of the model and constants of the program                        *)
(* ---------------------------------------------------------------------- *)

\* the largest number of URLs of a job (length of the expanded URL list)
MaxUrls == 4

\* hybrid-engine.ts:47  const batchSize = 3
batchSize == 3

(* ---------------------------------------------------------------------- *)
(* Strings                                                                 *)
(* ---------------------------------------------------------------------- *)

UpperChars ==
  <<"A","B","C","D","E","F","G","H","I","J","K","L","M",
    "N","O","P","Q","R","S","T","U","V","W","X","Y","Z">>

LowerChars ==
  <<"a","b","c","d","e","f","g","h","i","j","k","l","m",
    "n","o","p","q","r","s","t","u","v","w","x","y","z">>

\* one character of String.prototype.toLowerCase
LowerChar(c) ==
  IF \E i \in 1..Len(UpperChars) : UpperChars[i] = c
  THEN LowerChars[CHOOSE i \in 1..Len(UpperChars) : UpperChars[i] = c]
  ELSE c

\* String.prototype.toLowerCase
RECURSIVE ToLowerCase(_)
ToLowerCase(s) ==
  IF Len(s) = 0 THEN <<>>
  ELSE <<LowerChar(Head(s))>> \o ToLowerCase(Tail(s))

\* String.prototype.includes
Includes(s, sub) ==
  \E i \in 0..(Len(s) - Len(sub)) : \A j \in 1..Len(sub) : s[i + j] = sub[j]

\* Array.prototype.join
RECURSIVE Join(_, _)
Join(strs, sep) ==
  IF Len(strs) = 0 THEN <<>>
  ELSE IF Len(strs) = 1 THEN strs[1]
  ELSE strs[1] \o sep \o Join(Tail(strs), sep)

sTitle        == <<"t","i","t","l","e">>
sPrice        == <<"p","r","i","c","e">>
sDescription  == <<"d","e","s","c","r","i","p","t","i","o","n">>
sImages       == <<"i","m","a","g","e","s">>
sRating       == <<"r","a","t","i","n","g">>
sReviews      == <<"r","e","v","i","e","w","s">>
sAddress      == <<"a","d","d","r","e","s","s">>
sContact      == <<"c","o","n","t","a","c","t">>
sBedrooms     == <<"b","e","d","r","o","o","m","s">>
sBathrooms    == <<"b","a","t","h","r","o","o","m","s">>
sSqft         == <<"s","q","f","t">>
sDestination  == <<"d","e","s","t","i","n","a","t","i","o","n">>
sDates        == <<"d","a","t","e","s">>
sAmenities    == <<"a","m","e","n","i","t","i","e","s">>
sDrugName     == <<"d","r","u","g","N","a","m","e">>
sDosage       == <<"d","o","s","a","g","e">>
sManufacturer == <<"m","a","n","u","f","a","c","t","u","r","e","r">>
sSideEffects  == <<"s","i","d","e","E","f","f","e","c","t","s">>
sContent      == <<"c","o","n","t","e","n","t">>
sLinks        == <<"l","i","n","k","s">>
sMetadata     == <<"m","e","t","a","d","a","t","a">>

(* ---------------------------------------------------------------------- *)
(* ProprietaryWebParser (parser.ts)                                        *)
(* ---------------------------------------------------------------------- *)

\* types.ts:67-74  ParserRule; the built-in rules have no transform
Rule(name, required, multiple) ==
  [name |-> name, required |-> required, multiple |-> multiple,
   transform |-> "none"]

Categories == {"ecommerce", "realestate", "travel", "healthcare", "general"}

\* parser.ts:17-54  this.defaultRules
defaultRules(category) ==
  CASE category = "ecommerce" ->
         << Rule(sTitle, TRUE, FALSE), Rule(sPrice, TRUE, FALSE),
            Rule(sDescription, FALSE, FALSE), Rule(sImages, FALSE, TRUE),
            Rule(sRating, FALSE, FALSE), Rule(sReviews, FALSE, TRUE) >>
    [] category = "realestate" ->
         << Rule(sAddress, TRUE, FALSE), Rule(sPrice, TRUE, FALSE),
            Rule(sBedrooms, FALSE, FALSE), Rule(sBathrooms, FALSE, FALSE),
            Rule(sSqft, FALSE, FALSE), Rule(sImages, FALSE, TRUE) >>
    [] category = "travel" ->
         << Rule(sDestination, TRUE, FALSE), Rule(sPrice, TRUE, FALSE),
            Rule(sDates, FALSE, FALSE), Rule(sRating, FALSE, FALSE),
            Rule(sAmenities, FALSE, TRUE) >>
    [] category = "healthcare" ->
         << Rule(sDrugName, TRUE, FALSE), Rule(sPrice, FALSE, FALSE),
            Rule(sDosage, FALSE, FALSE), Rule(sManufacturer, FALSE, FALSE),
            Rule(sSideEffects, FALSE, TRUE) >>
    [] category = "general" ->
         << Rule(sTitle, FALSE, FALSE), Rule(sContent, FALSE, FALSE),
            Rule(sLinks, FALSE, TRUE), Rule(sImages, FALSE, TRUE) >>

(* A page returned by the page fetch, as far as the rule-based pass reads  *)
(* it: its URL, the part of its text that the classifier's keywords are    *)
(* looked up in, the rule names whose extraction yields a value on the     *)
(* page, and the rule names whose extraction throws (none on a page whose  *)
(* text is a string).  The images and links rules yield a list (possibly   *)
(* empty) on every page.                                                   *)
sShopUrl  == <<"S","h","o","p",".","i","o">>
sPlainUrl == <<"A",".","i","o">>
sShopText == <<"M","u","g"," ","4"," ","s","t","a","r","s">>
sSaleText == <<"M","u","g"," ","$","5">>
sPlainText == <<"H","i">>

PageNames == {"shopHigh", "shopMid", "shopEdge", "shopLow", "plain"}

Page(name) ==
  CASE name = "shopHigh" ->
         [url |-> sShopUrl, text |-> sSaleText,
          hits |-> {sTitle, sPrice, sImages}, throws |-> {}]
    [] name = "shopMid" ->
         [url |-> sShopUrl, text |-> sShopText,
          hits |-> {sTitle, sImages, sRating}, throws |-> {}]
    [] name = "shopEdge" ->
         [url |-> sShopUrl, text |-> sShopText,
          hits |-> {sTitle, sDescription, sImages, sRating, sReviews},
          throws |-> {}]
    [] name = "shopLow" ->
         [url |-> sShopUrl, text |-> <<>>,
          hits |-> {sImages}, throws |-> {}]
    [] name = "plain" ->
         [url |-> sPlainUrl, text |-> sPlainText,
          hits |-> {sTitle, sLinks, sImages}, throws |-> {}]

\* what blink.data.scrape(url) does: throws, or returns a page extract
FetchOutcomes == {"throw"} \cup PageNames

\* parser.ts:112-131: the keyword lists tested against the lower-cased URL
UrlKeywords(category) ==
  CASE category = "ecommerce" ->
         << <<"s","h","o","p">>,
            <<"s","t","o","r","e">>,
            <<"p","r","o","d","u","c","t">>,
            <<"b","u","y">>,
            <<"c","a","r","t">>,
            <<"a","m","a","z","o","n">>,
            <<"e","b","a","y">> >>
    [] category = "realestate" ->
         << <<"r","e","a","l","t","o","r">>,
            <<"z","i","l","l","o","w">>,
            <<"r","e","a","l","t","y">>,
            <<"h","o","m","e","s">>,
            <<"p","r","o","p","e","r","t","y">> >>
    [] category = "travel" ->
         << <<"b","o","o","k","i","n","g">>,
            <<"h","o","t","e","l">>,
            <<"f","l","i","g","h","t">>,
            <<"t","r","a","v","e","l">>,
            <<"e","x","p","e","d","i","a">>,
            <<"a","i","r","b","n","b">> >>
    [] category = "healthcare" ->
         << <<"d","r","u","g">>,
            <<"m","e","d","i","c","a","t","i","o","n">>,
            <<"p","h","a","r","m","a","c","y">>,
            <<"h","e","a","l","t","h">>,
            <<"m","e","d","i","c","a","l">> >>

\* parser.ts:113-132: the keyword lists tested against the lower-cased content
ContentKeywords(category) ==
  CASE category = "ecommerce" ->
         << <<"a","d","d"," ","t","o"," ","c","a","r","t">>,
            <<"b","u","y"," ","n","o","w">>,
            <<"p","r","i","c","e">>,
            <<"$">>,
            <<"p","r","o","d","u","c","t">> >>
    [] category = "realestate" ->
         << <<"b","e","d","r","o","o","m","s">>,
            <<"b","a","t","h","r","o","o","m","s">>,
            <<"s","q","f","t">>,
            <<"l","i","s","t","i","n","g">>,
            <<"m","l","s">> >>
    [] category = "travel" ->
         << <<"c","h","e","c","k","-","i","n">>,
            <<"c","h","e","c","k","-","o","u","t">>,
            <<"n","i","g","h","t","s">>,
            <<"g","u","e","s","t","s">>,
            <<"a","m","e","n","i","t","i","e","s">> >>
    [] category = "healthcare" ->
         << <<"d","o","s","a","g","e">>,
            <<"s","i","d","e"," ","e","f","f","e","c","t","s">>,
            <<"p","r","e","s","c","r","i","p","t","i","o","n">>,
            <<"m","g">>,
            <<"t","a","b","l","e","t">> >>

\* parser.ts:138-140  keywords.some(keyword => text.includes(keyword))
containsKeywords(text, keywords) ==
  \E k \in 1..Len(keywords) : Includes(text, keywords[k])

\* parser.ts:111-112, 118-119, 125-126, 132-133: one category's test
Matches(category, urlLower, contentLower) ==
  \/ containsKeywords(urlLower, UrlKeywords(category))
  \/ containsKeywords(contentLower, ContentKeywords(category))

\* parser.ts:107-136 with realestate tested before ecommerce
detectRuleSet_realestateFirst(url, content) ==
  LET urlLower     == ToLowerCase(url)
      contentLower == ToLowerCase(content)
  IN  IF Matches("realestate", urlLower, contentLower)
      THEN defaultRules("realestate")
      ELSE IF Matches("ecommerce", urlLower, contentLower)
      THEN defaultRules("ecommerce")
      ELSE IF Matches("travel", urlLower, contentLower)
      THEN defaultRules("travel")
      ELSE IF Matches("healthcare", urlLower, contentLower)
      THEN defaultRules("healthcare")
      ELSE defaultRules("general")

\* parser.ts:107-136
detectRuleSet(url, content) ==
  LET urlLower     == ToLowerCase(url)
      contentLower == ToLowerCase(content)
  IN  IF Matches("ecommerce", urlLower, contentLower)
      THEN defaultRules("ecommerce")
      ELSE IF Matches("realestate", urlLower, contentLower)
      THEN defaultRules("realestate")
      ELSE IF Matches("travel", urlLower, contentLower)
      THEN defaultRules("travel")
      ELSE IF Matches("healthcare", urlLower, contentLower)
      THEN defaultRules("healthcare")
      ELSE defaultRules("general")

(* applyRules with one try block around the whole loop: the first rule     *)
(* that throws ends the loop, and the fields stored so far are returned    *)
applyRules_oneTryBlock(page, rules) ==
  LET Throws(k) == \/ rules[k].name \in page.throws
                   \/ /\ rules[k].name \in page.hits
                      /\ rules[k].transform = "throws"
      applied   == {k \in 1..Len(rules) : \A j \in 1..k : ~Throws(j)}
      Stores(r) == /\ r.name \in page.hits
                   /\ r.transform \in {"none", "value"}
      found     == SelectSeq(SubSeq(rules, 1, Cardinality(applied)), Stores)
      first     == {k \in 1..Len(found) :
                      \A j \in 1..(k - 1) : found[j].name # found[k].name}
  IN  [n \in 1..Cardinality(first) |->
         found[CHOOSE k \in first :
                 Cardinality({j \in first : j < k}) = n - 1].name]

(* parser.ts:142-166: the keys of the field map, in the order in which the *)
(* rules insert them.  A rule stores its field when its extraction does    *)
(* not throw and yields a value (always a truthy one: a non-empty string   *)
(* or a list) and its transform, if any, neither throws nor returns        *)
(* null or undefined; a throw is caught per rule.                          *)
applyRules(page, rules) ==
  LET Stores(r) == /\ r.name \notin page.throws
                   /\ r.name \in page.hits
                   /\ r.transform \in {"none", "value"}
      found     == SelectSeq(rules, Stores)
      first     == {k \in 1..Len(found) :
                      \A j \in 1..(k - 1) : found[j].name # found[k].name}
  IN  [n \in 1..Cardinality(first) |->
         found[CHOOSE k \in first :
                 Cardinality({j \in first : j < k}) = n - 1].name]

\* an exact rational
Rat(num, den) == [num |-> num, den |-> den]

Lt(c, num, den) == c.num * den < num * c.den

Gt(c, num, den) == c.num * den > num * c.den

RatGt(a, b) == a.num * b.den > b.num * a.den

Range(seq) == {seq[i] : i \in 1..Len(seq)}

\* calculateConfidence with the two scores weighted equally
calculateConfidence_equalWeights(dataKeys, rules) ==
  LET IsRequired(r)  == r.required
      requiredRules  == SelectSeq(rules, IsRequired)
      IsFound(r)     == r.name \in Range(dataKeys)
      foundRequired  == SelectSeq(requiredRules, IsFound)
      totalFields    == Len(dataKeys)
      R              == Len(requiredRules)
      N              == Len(rules)
  IN  IF R > 0
      THEN Rat(5 * Len(foundRequired) * N + 5 * totalFields * R, 10 * R * N)
      ELSE Rat(5 * N + 5 * totalFields, 10 * N)

\* parser.ts:235-246: 0.7 * requiredScore + 0.3 * totalScore
calculateConfidence(dataKeys, rules) ==
  LET IsRequired(r)  == r.required
      requiredRules  == SelectSeq(rules, IsRequired)
      IsFound(r)     == r.name \in Range(dataKeys)
      foundRequired  == SelectSeq(requiredRules, IsFound)
      totalFields    == Len(dataKeys)
      R              == Len(requiredRules)
      N              == Len(rules)
  IN  IF R > 0
      THEN Rat(7 * Len(foundRequired) * N + 3 * totalFields * R, 10 * R * N)
      ELSE Rat(7 * N + 3 * totalFields, 10 * N)

\* parser.ts:67-87: extractFromUrl once the page is fetched and rules chosen
extractWith(page, rules) ==
  LET parsedData == applyRules(page, rules)
      confidence == calculateConfidence(parsedData, rules)
  IN  [success    |-> Gt(confidence, 3, 10),
       data       |-> parsedData \o <<sMetadata>>,
       confidence |-> confidence,
       errors     |-> "none"]

(* The ways the rule-based pass fails before it has a page to parse: the   *)
(* page fetch throws, or it returns without an extract, so that reading    *)
(* extract.text throws (parser.ts:62, 65).                                 *)
FetchFailures == {"throw", "noExtract"}

\* extractFromUrl whose catch block returns success: true
extractFromUrl_successOnFailure(fetch) ==
  IF fetch \in FetchFailures
  THEN [success |-> TRUE, data |-> <<>>, confidence |-> Rat(0, 1),
        errors |-> "error.message"]
  ELSE extractWith(Page(fetch),
                   detectRuleSet(Page(fetch).url, Page(fetch).text))

(* parser.ts:57-98, called without customRules as processUrl calls it.     *)
(* errors is what the errors list holds, "none" when the outcome has none. *)
extractFromUrl(fetch) ==
  IF fetch \in FetchFailures
  THEN [success |-> FALSE, data |-> <<>>, confidence |-> Rat(0, 1),
        errors |-> "error.message"]
  ELSE extractWith(Page(fetch),
                   detectRuleSet(Page(fetch).url, Page(fetch).text))

(* ---------------------------------------------------------------------- *)
(* LLMExtractor (llm-extractor.ts)                                         *)
(* ---------------------------------------------------------------------- *)

(* What one blink.ai.generateObject call does: throws, or returns an       *)
(* object whose confidence is low (0.3) or high (0.9).                     *)
CompletionOutcomes == {"throw", "low", "high"}

\* what one blink.ai.generateText call does
TextOutcomes == {"throw", "ok"}

(* The objects a generateObject call may return, by their confidence: the  *)
(* schema (llm-extractor.ts:26-29) asks for a number and sets no minimum   *)
(* or maximum, so besides low and high the value may be above 1 (1.5),     *)
(* below 0 (-0.5), or missing.                                             *)
CompletionObjects == {"low", "high", "over", "negative", "missing"}

\* llm-extractor.ts:52  object.confidence || 0
objectConfidence(completion) ==
  CASE completion = "low"      -> Rat(3, 10)
    [] completion = "high"     -> Rat(9, 10)
    [] completion = "over"     -> Rat(3, 2)
    [] completion = "negative" -> Rat(0 - 1, 2)
    [] completion = "missing"  -> Rat(0, 1)

(* The ways a generateObject call fails inside extractFromContent: it      *)
(* throws an Error, it throws a value that is not an Error, or it returns  *)
(* without an object, so that reading object.extractedData throws.         *)
CompletionFailures == {"throw", "throwValue", "noObject"}

\* llm-extractor.ts:69  the errors list of the failure outcome
caughtErrors(completion) ==
  IF completion = "throwValue" THEN "Unknown LLM error" ELSE "error.message"

\* extractFromContent whose catch block returns success: true
extractFromContent_successOnFailure(completion) ==
  IF completion \in CompletionFailures
  THEN [success |-> TRUE, data |-> "empty", confidence |-> Rat(0, 1),
        errors |-> caughtErrors(completion), cleaned |-> FALSE]
  ELSE [success    |-> TRUE,
        data       |-> "extractedData",
        confidence |-> objectConfidence(completion),
        errors     |-> "none",
        cleaned    |-> FALSE]

(* llm-extractor.ts:13-74.  data says whether the field map is the         *)
(* object's extractedData or the empty map, errors what the errors list    *)
(* holds ("none" when the outcome has no errors list), and cleaned whether *)
(* the explanation carries the cleaned-content marker.                     *)
extractFromContent(completion) ==
  IF completion \in CompletionFailures
  THEN [success |-> FALSE, data |-> "empty", confidence |-> Rat(0, 1),
        errors |-> caughtErrors(completion), cleaned |-> FALSE]
  ELSE [success    |-> TRUE,
        data       |-> "extractedData",
        confidence |-> objectConfidence(completion),
        errors     |-> "none",
        cleaned    |-> FALSE]

\* llm-extractor.ts:175  if (result.confidence < 0.5)
fallbackRuns(primary) == Lt(extractFromContent(primary).confidence, 5, 10)

(* llm-extractor.ts:165-186.  primary and fallback are the outcomes of the *)
(* two generateObject calls; the content-cleaning call between them        *)
(* catches its own failure (llm-extractor.ts:76-110) and changes only the  *)
(* content handed to the fallback pass.                                    *)
extractWithFallback(primary, fallback) ==
  LET result == extractFromContent(primary)
  IN  IF fallbackRuns(primary)
      THEN LET fallbackResult == extractFromContent(fallback)
           IN  IF RatGt(fallbackResult.confidence, result.confidence)
               THEN [fallbackResult EXCEPT !.cleaned = TRUE]
               ELSE result
      ELSE result

(* ---------------------------------------------------------------------- *)
(* HybridScrapingEngine: the per-URL pipeline (hybrid-engine.ts:86-233)    *)
(* ---------------------------------------------------------------------- *)

sSpace == <<" ">>

(* job.extractionInstructions: absent (undefined), the empty string, or a  *)
(* text.                                                                   *)
Instruction(present, text) == [present |-> present, text |-> text]

InstructionNames == {"absent", "empty", "reviews", "title", "price"}

Instructions(name) ==
  CASE name = "absent"  -> Instruction(FALSE, <<>>)
    [] name = "empty"   -> Instruction(TRUE, <<>>)
    [] name = "reviews" ->
         \* "get the reviews and contact info"
         Instruction(TRUE,
           <<"g","e","t"," ","t","h","e"," ","r","e","v","i","e","w","s"," ",
             "a","n","d"," ","c","o","n","t","a","c","t"," ","i","n","f","o">>)
    [] name = "title"   ->
         \* "Get the TITLE"
         Instruction(TRUE,
           <<"G","e","t"," ","t","h","e"," ","T","I","T","L","E">>)
    [] name = "price"   ->
         \* "Get the PRICE"
         Instruction(TRUE,
           <<"G","e","t"," ","t","h","e"," ","P","R","I","C","E">>)

\* a JavaScript string is truthy when it is defined and not empty
Truthy(instructions) == instructions.present /\ instructions.text # <<>>

\* hybrid-engine.ts:227
requestedFields ==
  <<sPrice, sTitle, sDescription, sRating, sReviews, sAddress, sContact>>

\* shouldUseLLM without the toLowerCase() of the instruction (line 224)
shouldUseLLM_caseSensitive(parserResult, instructions) ==
  IF ~Truthy(instructions) THEN FALSE
  ELSE IF Lt(parserResult.confidence, 5, 10) THEN TRUE
  ELSE IF ~parserResult.success THEN TRUE
  ELSE LET extractedFields == ToLowerCase(Join(parserResult.data, sSpace))
           Missing(field)  == /\ Includes(instructions.text, field)
                              /\ ~Includes(extractedFields, field)
       IN  Len(SelectSeq(requestedFields, Missing)) > 0

\* hybrid-engine.ts:213-233
shouldUseLLM(parserResult, instructions) ==
  IF ~Truthy(instructions) THEN FALSE
  ELSE IF Lt(parserResult.confidence, 5, 10) THEN TRUE
  ELSE IF ~parserResult.success THEN TRUE
  ELSE LET instructionKeywords == ToLowerCase(instructions.text)
           extractedFields     == ToLowerCase(Join(parserResult.data, sSpace))
           Missing(field)      == /\ Includes(instructionKeywords, field)
                                  /\ ~Includes(extractedFields, field)
           missingFields       == SelectSeq(requestedFields, Missing)
       IN  Len(missingFields) > 0

\* branchOf with confidence >= 0.6 in place of confidence > 0.6 (line 101)
branchOf_atLeast(parserResult, instructions) ==
  IF shouldUseLLM(parserResult, instructions) /\ Truthy(instructions)
  THEN "hybrid"
  ELSE IF parserResult.success /\ ~Lt(parserResult.confidence, 6, 10)
  THEN "parser"
  ELSE "llm"

\* hybrid-engine.ts:98-116: the branch processUrl takes
branchOf(parserResult, instructions) ==
  IF shouldUseLLM(parserResult, instructions) /\ Truthy(instructions)
  THEN "hybrid"
  ELSE IF parserResult.success /\ Gt(parserResult.confidence, 6, 10)
  THEN "parser"
  ELSE "llm"

\* what the second blink.data.scrape(url) of a URL does
RefetchOutcomes == {"throw", "page"}

(* The collaborator calls of one hybridExtraction or llmOnlyExtraction     *)
(* call with their outcomes, "none" for a call that is not made: nothing   *)
(* is called after a page fetch that throws, the cleaning call and the     *)
(* fallback pass are made only when the primary confidence is below 0.5,   *)
(* and only hybridExtraction asks for a summary.                           *)
Runs(withSummary) ==
  { r \in [fetch : RefetchOutcomes,
           primary : CompletionOutcomes \cup {"none"},
           clean : TextOutcomes \cup {"none"},
           fallback : CompletionOutcomes \cup {"none"},
           summary : TextOutcomes \cup {"none"}] :
      /\ (r.primary = "none") = (r.fetch = "throw")
      /\ (r.clean = "none") = (r.primary \in {"none", "high"})
      /\ (r.fallback = "none") = (r.primary \in {"none", "high"})
      /\ (r.summary = "none") = (r.fetch = "throw" \/ ~withSummary) }

HybridRuns == Runs(TRUE)

LlmOnlyRuns == Runs(FALSE)

\* a run in which no collaborator is called
NoRun ==
  [fetch |-> "none", primary |-> "none", clean |-> "none",
   fallback |-> "none", summary |-> "none"]

(* The ScrapedData a branch returns: its metadata.extractionSource, what   *)
(* its content is (the parser's data, the LLM's data, the two merged, or   *)
(* the empty map), the kind of its metadata.explanation, the instruction   *)
(* handed to the LLM extractor ("none" when it is not called), and whether *)
(* the LLM outcome it used has success = true.                             *)
Result(source, content, explanation, prompt, llmSuccess) ==
  [source |-> source, content |-> content, explanation |-> explanation,
   prompt |-> prompt, llmSuccess |-> llmSuccess]

(* hybridExtraction whose catch block throws again, as the one of          *)
(* llmOnlyExtraction does, so that processUrl's catch builds the result    *)
hybridExtraction_rethrows(r) ==
  IF r.fetch = "throw"
  THEN Result("failed", "empty", "error", "none", FALSE)
  ELSE Result("hybrid", "merged",
              IF r.summary = "throw" THEN "template" ELSE "summary",
              "job",
              extractWithFallback(r.primary, r.fallback).success)

(* hybrid-engine.ts:134-187.  generateExtractionSummary catches the        *)
(* failure of its generateText call and returns the templated string       *)
(* (llm-extractor.ts:188-211).                                             *)
hybridExtraction(r) ==
  IF r.fetch = "throw"
  THEN Result("parser", "parserData", "hybridFailed", "none", FALSE)
  ELSE Result("hybrid", "merged",
              IF r.summary = "throw" THEN "template" ELSE "summary",
              "job",
              extractWithFallback(r.primary, r.fallback).success)

(* hybrid-engine.ts:115, 189-211 and the catch of processUrl (120-131): a  *)
(* throw of llmOnlyExtraction becomes the result with source failed.       *)
llmOnlyExtraction(r, instructions) ==
  IF r.fetch = "throw"
  THEN Result("failed", "empty", "error", "none", FALSE)
  ELSE Result("llm", "llmData", "llm",
              IF Truthy(instructions) THEN "job" ELSE "default",
              extractWithFallback(r.primary, r.fallback).success)

\* hybrid-engine.ts:101-112
parserOnly == Result("parser", "parserData", "none", "none", FALSE)

\* the collaborator calls a branch can make
BranchRuns(branch) ==
  CASE branch = "hybrid" -> HybridRuns
    [] branch = "parser" -> {NoRun}
    [] branch = "llm"    -> LlmOnlyRuns

\* hybrid-engine.ts:98-116: the result of the branch taken
branchResult(branch, r, instructions) ==
  CASE branch = "hybrid" -> hybridExtraction(r)
    [] branch = "parser" -> parserOnly
    [] branch = "llm"    -> llmOnlyExtraction(r, instructions)

(* ---------------------------------------------------------------------- *)
(* State                                                                   *)
(* ---------------------------------------------------------------------- *)

VARIABLES
  job,               \* the ScrapingJob handed to processJob and processUrl
  jpc,               \* where processJob is suspended
  i,                 \* the loop index of processJob (first URL of the batch)
  tasks,             \* the batch tasks (hybrid-engine.ts:51-67), one per URL
  processedCount,    \* hybrid-engine.ts:42
  successCount,      \* hybrid-engine.ts:43
  failedCount,       \* hybrid-engine.ts:44
  dbJob,             \* the job's row of blink.db.scrapingJobs
  extractionResults, \* blink.db.extractionResults: "saved" for a URL with a row
  pageLogs,          \* blink.db.pageLogs: the pageUrl of every row
  statusLog,         \* every status the job's row has held, in order
  dbThrew,           \* some call of the persistence collaborator has thrown
  call               \* one processUrl call made on its own (SpecUrl)

vars ==
  << job, jpc, i, tasks, processedCount, successCount, failedCount,
     dbJob, extractionResults, pageLogs, statusLog, dbThrew, call >>

Urls == 1..MaxUrls

\* allUrls of processJob: the URLs 1..total
total == job.urls

instructions == Instructions(job.instructions)

(* A batch task.  Of the result of its processUrl call the task holds the  *)
(* source; noPage records that every page fetch made for the URL threw;    *)
(* snap holds the counters handed to the updateJobProgress call in flight. *)
IdleTask ==
  [pc |-> "idle", source |-> "none", noPage |-> FALSE, snap |-> <<0, 0, 0>>]

\* a processUrl call that is not made
IdleCall ==
  [pc |-> "idle", fetch |-> "none", run |-> NoRun, needsLLM |-> FALSE,
   branch |-> "none",
   result |-> Result("none", "none", "none", "none", FALSE)]

\* allUrls.slice(i, i + batchSize)
batch == {u \in Urls : i < u /\ u <= i + batchSize /\ u <= total}

\* the instructions of the jobs that processJob is run on
JobInstructions == {"absent", "reviews"}

Init ==
  /\ job \in [urls : 0..MaxUrls, instructions : JobInstructions]
  /\ jpc = "new"
  /\ i = 0
  /\ tasks = [u \in Urls |-> IdleTask]
  /\ processedCount = 0
  /\ successCount = 0
  /\ failedCount = 0
  /\ dbJob = [status |-> "none", totalPages |-> 0, processedPages |-> 0,
              successPages |-> 0, failedPages |-> 0]
  /\ extractionResults = [u \in Urls |-> "none"]
  /\ pageLogs = {}
  /\ statusLog = <<>>
  /\ dbThrew = FALSE
  /\ call = IdleCall

(* ---------------------------------------------------------------------- *)
(* Persistence collaborator (blink.db)                                     *)
(* ---------------------------------------------------------------------- *)

\* hybrid-engine.ts:82: the pageUrl 'job-level' of the job-level error log
jobLevel == 0

\* hybrid-engine.ts:300-315: blink.db.scrapingJobs.update(jobId, {status})
updateJobStatus(status) ==
  /\ dbJob' = [dbJob EXCEPT !.status = status]
  /\ statusLog' = Append(statusLog, status)

\* hybrid-engine.ts:317-331: blink.db.scrapingJobs.update(jobId, {counters})
updateJobProgress(totalPages, processedPages, successPages, failedPages) ==
  dbJob' = [dbJob EXCEPT !.totalPages = totalPages,
                         !.processedPages = processedPages,
                         !.successPages = successPages,
                         !.failedPages = failedPages]

\* a call of the persistence collaborator returns (ok) or throws
Persisted(ok) == dbThrew' = (dbThrew \/ ~ok)

(* ---------------------------------------------------------------------- *)
(* processJob (hybrid-engine.ts:31-84) and createAndStartJob (356-394)     *)
(* ---------------------------------------------------------------------- *)

\* hybrid-engine.ts:48-53: the tasks of the batch starting after URL first
StartBatch(first) ==
  /\ i' = first
  /\ tasks' = [u \in Urls |->
                 IF first < u /\ u <= first + batchSize /\ u <= total
                 THEN [IdleTask EXCEPT !.pc = "processing"]
                 ELSE tasks[u]]
  /\ jpc' = "batch"

\* hybrid-engine.ts:380-391: the job row is created, processJob is started
CreateAndStartJob(ok) ==
  /\ jpc = "new"
  /\ Persisted(ok)
  /\ IF ok
     THEN /\ dbJob' = [dbJob EXCEPT !.status = "pending"]
          /\ statusLog' = <<"pending">>
          /\ jpc' = "setRunning"
     ELSE /\ jpc' = "notStarted"
          /\ UNCHANGED <<dbJob, statusLog>>
  /\ UNCHANGED <<job, i, tasks, processedCount, successCount, failedCount,
                 extractionResults, pageLogs, call>>

\* hybrid-engine.ts:36-40: updateJobStatus('running') returns or throws
SetRunningReturns(ok) ==
  /\ jpc = "setRunning"
  /\ Persisted(ok)
  /\ IF ok
     THEN /\ updateJobStatus("running")
          /\ jpc' = "initProgress"
     ELSE /\ jpc' = "setFailed"
          /\ UNCHANGED <<dbJob, statusLog>>
  /\ UNCHANGED <<job, i, tasks, processedCount, successCount, failedCount,
                 extractionResults, pageLogs, call>>

\* hybrid-engine.ts:40-53: updateJobProgress(total, 0, 0, 0) returns or throws
InitProgressReturns(ok) ==
  /\ jpc = "initProgress"
  /\ Persisted(ok)
  /\ IF ok
     THEN /\ updateJobProgress(total, 0, 0, 0)
          /\ IF 0 < total
             THEN StartBatch(0)
             ELSE /\ jpc' = "setCompleted"
                  /\ UNCHANGED <<i, tasks>>
     ELSE /\ jpc' = "setFailed"
          /\ UNCHANGED <<dbJob, i, tasks>>
  /\ UNCHANGED <<job, processedCount, successCount, failedCount,
                 extractionResults, pageLogs, statusLog, call>>

\* BatchDone with Promise.race in place of Promise.all (line 69)
BatchDone_race ==
  /\ jpc = "batch"
  /\ \E u \in batch : tasks[u].pc = "done"
  /\ jpc' = IF i + batchSize < total THEN "delay" ELSE "setCompleted"
  /\ UNCHANGED <<job, i, tasks, processedCount, successCount, failedCount,
                 dbJob, extractionResults, pageLogs, statusLog, dbThrew, call>>

\* BatchDone without the test of line 72: the delay follows every batch
BatchDone_alwaysDelays ==
  /\ jpc = "batch"
  /\ \A u \in batch : tasks[u].pc = "done"
  /\ jpc' = IF i < total THEN "delay" ELSE "setCompleted"
  /\ UNCHANGED <<job, i, tasks, processedCount, successCount, failedCount,
                 dbJob, extractionResults, pageLogs, statusLog, dbThrew, call>>

\* hybrid-engine.ts:69-78: Promise.all(batchPromises) is fulfilled
BatchDone ==
  /\ jpc = "batch"
  /\ \A u \in batch : tasks[u].pc = "done"
  /\ jpc' = IF i + batchSize < total THEN "delay" ELSE "setCompleted"
  /\ UNCHANGED <<job, i, tasks, processedCount, successCount, failedCount,
                 dbJob, extractionResults, pageLogs, statusLog, dbThrew, call>>

\* hybrid-engine.ts:72-74, 48-53: the delay is over, the next batch starts
DelayReturns ==
  /\ jpc = "delay"
  /\ StartBatch(i + batchSize)
  /\ UNCHANGED <<job, processedCount, successCount, failedCount, dbJob,
                 extractionResults, pageLogs, statusLog, dbThrew, call>>

(* SetCompletedReturns with a statement after the status write of line 78 *)
(* that throws inside the try                                              *)
SetCompletedReturns_thenThrows(ok) ==
  /\ jpc = "setCompleted"
  /\ Persisted(ok)
  /\ IF ok
     THEN /\ updateJobStatus("completed")
          /\ jpc' = "setFailed"
     ELSE /\ jpc' = "setFailed"
          /\ UNCHANGED <<dbJob, statusLog>>
  /\ UNCHANGED <<job, i, tasks, processedCount, successCount, failedCount,
                 extractionResults, pageLogs, call>>

\* hybrid-engine.ts:78-81: updateJobStatus('completed') returns or throws
SetCompletedReturns(ok) ==
  /\ jpc = "setCompleted"
  /\ Persisted(ok)
  /\ IF ok
     THEN /\ updateJobStatus("completed")
          /\ jpc' = "done"
     ELSE /\ jpc' = "setFailed"
          /\ UNCHANGED <<dbJob, statusLog>>
  /\ UNCHANGED <<job, i, tasks, processedCount, successCount, failedCount,
                 extractionResults, pageLogs, call>>

\* hybrid-engine.ts:81-82: updateJobStatus('failed') returns or throws
SetFailedReturns(ok) ==
  /\ jpc = "setFailed"
  /\ Persisted(ok)
  /\ IF ok
     THEN /\ updateJobStatus("failed")
          /\ jpc' = "logJob"
     ELSE /\ jpc' = "rejected"
          /\ UNCHANGED <<dbJob, statusLog>>
  /\ UNCHANGED <<job, i, tasks, processedCount, successCount, failedCount,
                 extractionResults, pageLogs, call>>

\* hybrid-engine.ts:82-84: logPageError('job-level') returns or throws
LogJobReturns(ok) ==
  /\ jpc = "logJob"
  /\ Persisted(ok)
  /\ IF ok
     THEN /\ pageLogs' = pageLogs \cup {jobLevel}
          /\ jpc' = "done"
     ELSE /\ jpc' = "rejected"
          /\ UNCHANGED pageLogs
  /\ UNCHANGED <<job, i, tasks, processedCount, successCount, failedCount,
                 dbJob, extractionResults, statusLog, call>>

(* ---------------------------------------------------------------------- *)
(* processUrl (hybrid-engine.ts:86-132) as a step                          *)
(* ---------------------------------------------------------------------- *)

(* hybrid-engine.ts:53, 86-132: the processUrl call of batch task t        *)
(* returns.  fetch is what the parser's page fetch does, r the calls of    *)
(* the branch taken.  The call touches no state of the job, so all of it   *)
(* is one step.                                                            *)
ProcessUrlReturns(t, fetch) ==
  /\ tasks[t].pc = "processing"
  /\ \E branch \in {branchOf(extractFromUrl(fetch), instructions)} :
       \E r \in BranchRuns(branch) :
           LET finalResult == branchResult(branch, r, instructions)
           IN  tasks' = [tasks EXCEPT ![t] =
                 [@ EXCEPT !.pc = "returned", !.source = finalResult.source,
                           !.noPage = (fetch = "throw" /\ r.fetch = "throw")]]
  /\ UNCHANGED <<job, jpc, i, processedCount, successCount, failedCount,
                 dbJob, extractionResults, pageLogs, statusLog, dbThrew, call>>

(* hybrid-engine.ts:86-132: a processUrl call made on its own returns.     *)
(* Besides the ScrapedData returned, call records the collaborators'       *)
(* outcomes, the LLM necessity decision and the branch taken.              *)
ProcessUrl(fetch) ==
  /\ call.pc = "processing"
  /\ \E parserResult \in {extractFromUrl(fetch)} :
       \E needsLLM \in {shouldUseLLM(parserResult, instructions)} :
         \E branch \in {branchOf(parserResult, instructions)} :
           \E r \in BranchRuns(branch) :
           call' = [pc |-> "returned", fetch |-> fetch, run |-> r,
                    needsLLM |-> needsLLM, branch |-> branch,
                    result |-> branchResult(branch, r, instructions)]
  /\ UNCHANGED <<job, jpc, i, tasks, processedCount, successCount,
                 failedCount, dbJob, extractionResults, pageLogs, statusLog,
                 dbThrew>>

(* ---------------------------------------------------------------------- *)
(* The batch task around processUrl (hybrid-engine.ts:51-67)               *)
(* ---------------------------------------------------------------------- *)

(* hybrid-engine.ts:65-66: processedCount++ and the call of                *)
(* updateJobProgress with the counters as they are now (succ and failed    *)
(* are the values of successCount and failedCount after this step).        *)
IssueProgress(t, succ, failed) ==
  /\ processedCount' = processedCount + 1
  /\ tasks' = [tasks EXCEPT ![t] =
                 [IdleTask EXCEPT
                    !.pc = "progress",
                    !.snap = <<processedCount + 1, succ, failed>>]]

(* The task's promise rejects: Promise.all rejects with it and processJob  *)
(* enters its catch, unless an earlier rejection already took it there.    *)
Reject(t) ==
  /\ tasks' = [tasks EXCEPT ![t] = [IdleTask EXCEPT !.pc = "rejected"]]
  /\ jpc' = IF jpc = "batch" THEN "setFailed" ELSE jpc

(* CountResult with a result of source failed thrown out of the task       *)
(* instead of counted (lines 57-59)                                        *)
CountResult_rethrows(t) ==
  /\ tasks[t].pc = "returned"
  /\ IF tasks[t].source # "failed"
     THEN /\ successCount' = successCount + 1
          /\ tasks' = [tasks EXCEPT ![t] = [IdleTask EXCEPT !.pc = "saving"]]
          /\ UNCHANGED <<processedCount, failedCount, jpc>>
     ELSE /\ Reject(t)
          /\ UNCHANGED <<processedCount, successCount, failedCount>>
  /\ UNCHANGED <<job, i, dbJob, extractionResults, pageLogs, statusLog,
                 dbThrew, call>>

\* hybrid-engine.ts:53-59, 65-66: the result of processUrl is counted
CountResult(t) ==
  /\ tasks[t].pc = "returned"
  /\ IF tasks[t].source # "failed"
     THEN /\ successCount' = successCount + 1
          /\ tasks' = [tasks EXCEPT ![t] =
                         [IdleTask EXCEPT !.pc = "saving"]]
          /\ UNCHANGED <<processedCount, failedCount>>
     ELSE /\ failedCount' = failedCount + 1
          /\ IssueProgress(t, successCount, failedCount + 1)
          /\ UNCHANGED successCount
  /\ UNCHANGED <<job, jpc, i, dbJob, extractionResults, pageLogs, statusLog,
                 dbThrew, call>>

\* hybrid-engine.ts:56, 60-66, 280-298: saveExtractionResult returns or throws
SaveReturns(t, ok) ==
  /\ tasks[t].pc = "saving"
  /\ Persisted(ok)
  /\ IF ok
     THEN /\ extractionResults' =
               [extractionResults EXCEPT ![t] = "saved"]
          /\ IssueProgress(t, successCount, failedCount)
          /\ UNCHANGED failedCount
     ELSE /\ failedCount' = failedCount + 1
          /\ tasks' = [tasks EXCEPT ![t] = [IdleTask EXCEPT !.pc = "logging"]]
          /\ UNCHANGED <<extractionResults, processedCount>>
  /\ UNCHANGED <<job, jpc, i, successCount, dbJob, pageLogs, statusLog, call>>

\* hybrid-engine.ts:62-66, 333-349: logPageError(url) returns or throws
LogReturns(t, ok) ==
  /\ tasks[t].pc = "logging"
  /\ Persisted(ok)
  /\ IF ok
     THEN /\ pageLogs' = pageLogs \cup {t}
          /\ IssueProgress(t, successCount, failedCount)
          /\ UNCHANGED jpc
     ELSE /\ Reject(t)
          /\ UNCHANGED <<pageLogs, processedCount>>
  /\ UNCHANGED <<job, i, successCount, failedCount, dbJob, extractionResults,
                 statusLog, call>>

\* hybrid-engine.ts:66-67, 317-331: updateJobProgress returns or throws
ProgressReturns(t, ok) ==
  /\ tasks[t].pc = "progress"
  /\ Persisted(ok)
  /\ IF ok
     THEN /\ updateJobProgress(total, tasks[t].snap[1], tasks[t].snap[2],
                               tasks[t].snap[3])
          /\ tasks' = [tasks EXCEPT ![t] = [IdleTask EXCEPT !.pc = "done"]]
          /\ UNCHANGED jpc
     ELSE /\ Reject(t)
          /\ UNCHANGED dbJob
  /\ UNCHANGED <<job, i, processedCount, successCount, failedCount,
                 extractionResults, pageLogs, statusLog, call>>

TaskStep(t) ==
  \/ \E fetch \in FetchOutcomes : ProcessUrlReturns(t, fetch)
  \/ CountResult(t)
  \/ \E ok \in BOOLEAN : SaveReturns(t, ok)
  \/ \E ok \in BOOLEAN : LogReturns(t, ok)
  \/ \E ok \in BOOLEAN : ProgressReturns(t, ok)

Next ==
  \/ \E ok \in BOOLEAN : CreateAndStartJob(ok)
  \/ \E ok \in BOOLEAN : SetRunningReturns(ok)
  \/ \E ok \in BOOLEAN : InitProgressReturns(ok)
  \/ BatchDone
  \/ DelayReturns
  \/ \E ok \in BOOLEAN : SetCompletedReturns(ok)
  \/ \E ok \in BOOLEAN : SetFailedReturns(ok)
  \/ \E ok \in BOOLEAN : LogJobReturns(ok)
  \/ \E t \in Urls : TaskStep(t)

Spec == Init /\ [][Next]_vars

(* One processUrl call made on its own, for every job instruction and      *)
(* every outcome of the collaborators.                                     *)
InitUrl ==
  /\ job \in [urls : {1}, instructions : InstructionNames]
  /\ jpc = "idle"
  /\ i = 0
  /\ tasks = [u \in Urls |-> IdleTask]
  /\ processedCount = 0
  /\ successCount = 0
  /\ failedCount = 0
  /\ dbJob = [status |-> "none", totalPages |-> 0, processedPages |-> 0,
              successPages |-> 0, failedPages |-> 0]
  /\ extractionResults = [u \in Urls |-> "none"]
  /\ pageLogs = {}
  /\ statusLog = <<>>
  /\ dbThrew = FALSE
  /\ call = [IdleCall EXCEPT !.pc = "processing"]

NextUrl == \E fetch \in FetchOutcomes : ProcessUrl(fetch)

SpecUrl == InitUrl /\ [][NextUrl]_vars

(* ---------------------------------------------------------------------- *)
(* The per-URL pipeline: properties of a processUrl call (SpecUrl)         *)
(* ---------------------------------------------------------------------- *)

\* the parser outcome of the call that has returned
ParseOutcome == extractFromUrl(call.fetch)

\* the parser outcome is good enough on its own
ParserGoodEnough ==
  ParseOutcome.success /\ Gt(ParseOutcome.confidence, 6, 10)

\* no instruction was supplied with the job (undefined, or the empty text)
NoInstruction == job.instructions \in {"absent", "empty"}

(* C1: once the parser has returned, processUrl takes exactly one of three *)
(* branches: hybrid when the LLM necessity decision is true and an         *)
(* instruction is present; otherwise parser-only, tagged source parser and *)
(* without any further collaborator call, when the parser outcome has      *)
(* success = true and confidence > 0.6; otherwise LLM-only, with the       *)
(* default instruction when none was supplied.  In particular a confident  *)
(* parser outcome and no instruction give source parser and no LLM call.   *)
C1_BranchSelection ==
  call.pc = "returned" =>
    /\ call.branch \in {"hybrid", "parser", "llm"}
    /\ (call.branch = "hybrid") = (call.needsLLM /\ ~NoInstruction)
    /\ (call.branch = "parser") =
         (~(call.needsLLM /\ ~NoInstruction) /\ ParserGoodEnough)
    /\ call.branch = "parser" =>
         /\ call.result.source = "parser"
         /\ call.result.content = "parserData"
         /\ call.run = NoRun
    /\ call.branch = "hybrid" /\ call.run.primary # "none" =>
         call.result.prompt = "job"
    /\ call.branch = "llm" /\ call.run.primary # "none" =>
         call.result.prompt = IF NoInstruction THEN "default" ELSE "job"
    /\ NoInstruction /\ ParserGoodEnough =>
         call.result.source = "parser" /\ call.run = NoRun

\* C1 witness: no instruction, a confident parser outcome, source parser
C1_Witness ==
  /\ call.pc = "returned"
  /\ job.instructions = "absent"
  /\ call.fetch = "shopHigh"
  /\ call.branch = "parser"
  /\ call.result.source = "parser"

\* the names of the reference list
ReferenceList ==
  {sPrice, sTitle, sDescription, sRating, sReviews, sAddress, sContact}

\* the parser field names joined with spaces, lower-cased
JoinedFieldNames == ToLowerCase(Join(ParseOutcome.data, sSpace))

(* C2: the LLM necessity decision is false whenever no instruction is      *)
(* supplied; with an instruction it is true if confidence < 0.5 or success *)
(* is false; otherwise it is true exactly when some name of the reference  *)
(* list occurs in the lower-cased instruction and not in the joined,       *)
(* lower-cased parser field names.  "get the reviews and contact info"     *)
(* with parser fields title, price, images gives true at confidence 0.85.  *)
C2_LlmNecessity ==
  call.pc = "returned" =>
    /\ NoInstruction => ~call.needsLLM
    /\ ~NoInstruction /\ Lt(ParseOutcome.confidence, 5, 10) => call.needsLLM
    /\ ~NoInstruction /\ ~ParseOutcome.success => call.needsLLM
    /\ ( /\ ~NoInstruction
         /\ ~Lt(ParseOutcome.confidence, 5, 10)
         /\ ParseOutcome.success )
       => ( call.needsLLM <=>
              \E field \in ReferenceList :
                /\ Includes(ToLowerCase(instructions.text), field)
                /\ ~Includes(JoinedFieldNames, field) )
    /\ job.instructions = "reviews" /\ call.fetch = "shopHigh" =>
         call.needsLLM

(* C2 witness: an upper-case PRICE in the instruction, a confident parser  *)
(* outcome without a price field, and the decision is true                 *)
C2_Witness ==
  /\ call.pc = "returned"
  /\ job.instructions = "price"
  /\ call.fetch = "plain"
  /\ ~Lt(ParseOutcome.confidence, 5, 10)
  /\ ParseOutcome.success
  /\ call.needsLLM

\* some step inside the branch's LLM work failed
StepFailed ==
  \/ call.run.fetch = "throw"
  \/ call.run.primary = "throw"
  \/ call.run.fallback = "throw"
  \/ call.run.summary = "throw"

(* C3: when the hybrid branch is taken and a step inside it fails (the     *)
(* second page fetch, a structured-completion call, or the summary call),  *)
(* the result is the parser-only field map tagged source parser with the   *)
(* explanatory note, never source failed and never source hybrid.          *)
C3_HybridDegradesToParser ==
  call.pc = "returned" /\ call.branch = "hybrid" /\ StepFailed =>
    /\ call.result.source = "parser"
    /\ call.result.content = "parserData"
    /\ call.result.explanation = "hybridFailed"

(* C4: when the LLM-only branch is taken and the LLM extraction fails (the *)
(* page fetch throws, or the extraction outcome has success = false        *)
(* because the structured-completion calls threw), the result has source   *)
(* failed.                                                                 *)
C4_LlmOnlyFailurePropagates ==
  ( /\ call.pc = "returned"
    /\ call.branch = "llm"
    /\ (call.run.fetch = "throw" \/ ~call.result.llmSuccess) )
  => call.result.source = "failed"

(* ---------------------------------------------------------------------- *)
(* The job: properties of processJob (Spec)                                *)
(* ---------------------------------------------------------------------- *)

(* C5: every URL whose page fetch fails is counted in the failed counter   *)
(* and not in succeeded: the step that counts the result of a URL for      *)
(* which no page fetch returned adds one to failedCount and leaves         *)
(* successCount alone.                                                     *)
C5_FetchFailureCountsFailed ==
  [][\A t \in Urls :
       ( /\ tasks[t].pc = "returned"
         /\ tasks[t].noPage
         /\ tasks'[t].pc # "returned" )
       => ( /\ failedCount' = failedCount + 1
            /\ successCount' = successCount )]_vars

\* processJob has ended: its promise is fulfilled or rejected
JobEnded == jpc \in {"done", "rejected"}

\* the URLs of the job
JobUrls == 1..total

(* C6: a per-URL failure never halts a job.  As long as no persistence     *)
(* call has thrown, whatever the results of the URLs, processJob does not  *)
(* enter its catch and no task rejects; when the job ends every URL has    *)
(* been processed (processedCount = total, every task done) and the status *)
(* is completed.                                                           *)
C6_UrlFailureNeverHaltsJob ==
  ~dbThrew =>
    /\ jpc \notin {"setFailed", "logJob", "rejected"}
    /\ \A u \in Urls : tasks[u].pc # "rejected"
    /\ dbJob.status # "failed"
    /\ JobEnded =>
         /\ dbJob.status = "completed"
         /\ processedCount = total
         /\ successCount + failedCount = total
         /\ \A u \in JobUrls : tasks[u].pc = "done"

(* C6 witness: a job of two batches in which every URL failed in           *)
(* extraction has ended completed                                          *)
C6_Witness ==
  /\ ~dbThrew
  /\ JobEnded
  /\ total = 4
  /\ failedCount = 4
  /\ processedCount = 4
  /\ dbJob.status = "completed"

\* the batch (0, 1, ...) of URL u
BatchOf(u) == (u - 1) \div 3

\* the URLs being processed: started, and neither completed nor rejected
InFlight == {u \in Urls : tasks[u].pc \notin {"idle", "done", "rejected"}}

(* C7: URLs are processed in consecutive batches of at most 3: a URL has   *)
(* started only if every URL of every earlier batch has completed, the     *)
(* URLs started are a prefix of the list, and at most 3 are in flight.     *)
C7_BatchesOfThree ==
  /\ Cardinality(InFlight) <= 3
  /\ \A u \in Urls :
       tasks[u].pc # "idle" =>
         /\ u \in JobUrls
         /\ \A v \in Urls : v < u => tasks[v].pc # "idle"
         /\ \A v \in Urls : BatchOf(v) < BatchOf(u) => tasks[v].pc = "done"

\* C7 witness: the second batch is in flight after the first has drained
C7_Witness ==
  /\ tasks[4].pc = "processing"
  /\ \A v \in 1..3 : tasks[v].pc = "done"
  /\ Cardinality(InFlight) = 1

(* C8: when the job reaches completed, the persisted processed counter is  *)
(* the total number of URLs and the persisted succeeded and failed         *)
(* counters are the numbers of URLs counted succeeded and failed, for      *)
(* every order in which the progress writes take effect.                   *)
C8_FinalCountersPersisted ==
  dbJob.status = "completed" =>
    /\ dbJob.processedPages = total
    /\ dbJob.successPages = successCount
    /\ dbJob.failedPages = failedCount

\* s is a prefix of t
IsPrefix(s, t) == Len(s) <= Len(t) /\ SubSeq(t, 1, Len(s)) = s

(* C9 as stated: the status follows pending -> running -> completed or     *)
(* pending -> running -> failed and nothing else.                          *)
C9_Lifecycle ==
  \/ IsPrefix(statusLog, <<"pending", "running", "completed">>)
  \/ IsPrefix(statusLog, <<"pending", "running", "failed">>)

(* C9 amended: the status follows pending -> running -> completed,         *)
(* pending -> running -> failed, or pending -> failed (the write of        *)
(* running threw); completed and failed are terminal and a job is never    *)
(* marked both.                                                            *)
C9_LifecycleWithEarlyFailure ==
  /\ \/ IsPrefix(statusLog, <<"pending", "running", "completed">>)
     \/ IsPrefix(statusLog, <<"pending", "running", "failed">>)
     \/ statusLog = <<"pending", "failed">>
  /\ statusLog # <<>> => dbJob.status = statusLog[Len(statusLog)]
  /\ ~({"completed", "failed"} \subseteq Range(statusLog))

\* C9 witness: a job marked failed that was never running
C9_Witness ==
  /\ statusLog = <<"pending", "failed">>
  /\ dbJob.status = "failed"
  /\ JobEnded

(* C10: every job that processJob set running has status completed or     *)
(* failed once processJob has ended; it does not stay running.             *)
C10_EndsCompletedOrFailed ==
  JobEnded /\ "running" \in Range(statusLog) =>
    dbJob.status \in {"completed", "failed"}

\* processJob has entered its catch (hybrid-engine.ts:80)
CatchEntered ==
  \/ jpc \in {"setFailed", "logJob", "rejected"}
  \/ jpc = "done" /\ dbJob.status # "completed"

(* C11: any exception that escapes the per-URL handling marks the job      *)
(* failed and writes the job-level error log entry: once processJob has    *)
(* ended after entering its catch, the status is failed and the page logs  *)
(* hold the job-level entry.                                               *)
C11_EscapedExceptionMarksFailed ==
  JobEnded /\ CatchEntered =>
    /\ dbJob.status = "failed"
    /\ jobLevel \in pageLogs

(* C12: the core does not depend on the success of persistence calls: the *)
(* return of saveExtractionResult, however it ends, leaves the succeeded   *)
(* and failed counters as they are, and the return of a task's page log    *)
(* write or progress update, however it ends, leaves processJob where it   *)
(* is (it does not enter its catch, so the remaining URLs and batches are  *)
(* processed and the final status is not changed).                         *)
C12_PersistenceFailureChangesNothing ==
  [][\A t \in Urls :
       /\ (tasks[t].pc = "saving" /\ tasks'[t].pc # "saving") =>
            (successCount' = successCount /\ failedCount' = failedCount)
       /\ (tasks[t].pc \in {"logging", "progress"}
             /\ tasks'[t].pc # tasks[t].pc) =>
            jpc' = jpc]_vars

\* the URLs that have a page error log entry
LoggedUrls == pageLogs \cap Urls

(* C13: every URL counted in the failed counter has a page error log       *)
(* entry: when the job is completed there are at least as many URLs with   *)
(* an entry as the failed counter says.                                    *)
C13_FailedUrlsAreLogged ==
  dbJob.status = "completed" => failedCount <= Cardinality(LoggedUrls)

(* ---------------------------------------------------------------------- *)
(* mergeResults (hybrid-engine.ts:235-253)                                 *)
(* ---------------------------------------------------------------------- *)

(* A JavaScript value of a field map: its typeof (with null and list told  *)
(* apart from object), n its length (string, list) or its number (number,  *)
(* 0 for false and 1 for true), and the map it comes from.                 *)
Value(type, n, from) == [type |-> type, n |-> n, from |-> from]

\* !value
Falsy(v) ==
  \/ v.type \in {"null", "undefined"}
  \/ v.type \in {"string", "number", "boolean"} /\ v.n = 0

\* the field names of the maps merged
Keys == {"a", "b", "c"}

\* the key under which mergeResults stores the provenance
ProvKey == "_extraction_sources"

(* The values of a parser field map: strings of 9 and 10 characters, the   *)
(* number 0, false, the empty list, an object.                             *)
ParserValues ==
  { Value("string", 9, "parser"), Value("string", 10, "parser"),
    Value("number", 0, "parser"), Value("boolean", 0, "parser"),
    Value("list", 0, "parser"), Value("object", 1, "parser") }

\* the values of extractedData: a string, or null
LlmValues == { Value("string", 5, "llm"), Value("null", 0, "llm") }

\* the field maps over a set of keys with values from a set
FieldMaps(keys, values) ==
  UNION { [ks -> values] : ks \in SUBSET keys }

\* the parser field maps handed to mergeResults
ParserMaps == FieldMaps(Keys, ParserValues)

(* The LLM field maps handed to mergeResults; the collaborator may also    *)
(* return a field named like the provenance key.                           *)
LlmMaps ==
  FieldMaps(Keys, LlmValues) \cup
  { [k \in DOMAIN m \cup {ProvKey} |->
       IF k = ProvKey THEN Value("string", 5, "llm") ELSE m[k]] :
    m \in FieldMaps(Keys, LlmValues) }

(* mergeResults with the hybrid provenance taken before the LLM entries    *)
(* are merged in (line 249 moved above line 239)                           *)
mergeResults_keysBeforeMerge(parserData, llmData) ==
  LET Overwrites(key) ==
        \/ key \notin DOMAIN parserData
        \/ Falsy(parserData[key])
        \/ parserData[key].type = "string" /\ parserData[key].n < 10
      merged ==
        [key \in DOMAIN parserData \cup DOMAIN llmData |->
           IF key \in DOMAIN llmData /\ Overwrites(key)
           THEN llmData[key]
           ELSE parserData[key]]
  IN  [fields  |-> [key \in DOMAIN merged \ {ProvKey} |-> merged[key]],
       sources |-> [parser |-> DOMAIN parserData,
                    llm    |-> DOMAIN llmData,
                    hybrid |-> DOMAIN parserData]]

(* hybrid-engine.ts:235-253.  The map returned has the entries of fields   *)
(* and the entry ProvKey with the value sources, which replaces an entry   *)
(* of that name merged from the inputs.                                    *)
mergeResults(parserData, llmData) ==
  LET Overwrites(key) ==
        \/ key \notin DOMAIN parserData
        \/ Falsy(parserData[key])
        \/ parserData[key].type = "string" /\ parserData[key].n < 10
      merged ==
        [key \in DOMAIN parserData \cup DOMAIN llmData |->
           IF key \in DOMAIN llmData /\ Overwrites(key)
           THEN llmData[key]
           ELSE parserData[key]]
  IN  [fields  |-> [key \in DOMAIN merged \ {ProvKey} |-> merged[key]],
       sources |-> [parser |-> DOMAIN parserData,
                    llm    |-> DOMAIN llmData,
                    hybrid |-> DOMAIN merged]]

\* Object.keys of the map mergeResults returns
ReturnedKeys(out) == DOMAIN out.fields \cup {ProvKey}

\* no job and no task: the state of the engine around a call made on its own
NoJob ==
  /\ job = [urls |-> 0, instructions |-> "absent"]
  /\ jpc = "idle"
  /\ i = 0
  /\ tasks = [u \in Urls |-> IdleTask]
  /\ processedCount = 0
  /\ successCount = 0
  /\ failedCount = 0
  /\ dbJob = [status |-> "none", totalPages |-> 0, processedPages |-> 0,
              successPages |-> 0, failedPages |-> 0]
  /\ extractionResults = [u \in Urls |-> "none"]
  /\ pageLogs = {}
  /\ statusLog = <<>>
  /\ dbThrew = FALSE

\* the variables of the job
jobVars ==
  << job, jpc, i, tasks, processedCount, successCount, failedCount,
     dbJob, extractionResults, pageLogs, statusLog, dbThrew >>

\* a mergeResults call on every pair of field maps
InitMerge ==
  /\ NoJob
  /\ call \in [pc : {"merging"}, parserData : ParserMaps, llmData : LlmMaps]

\* hybrid-engine.ts:153: mergeResults returns
MergeResults ==
  /\ call.pc = "merging"
  /\ call' = [pc |-> "merged", parserData |-> call.parserData,
              llmData |-> call.llmData,
              out |-> mergeResults(call.parserData, call.llmData)]
  /\ UNCHANGED jobVars

NextMerge == MergeResults

SpecMerge == InitMerge /\ [][NextMerge]_vars

C15_HybridIsReturnedKeySet ==
  call.pc = "merged" =>
    /\ call.out.sources.hybrid = ReturnedKeys(call.out)
    /\ call.out.sources.parser = DOMAIN call.parserData
    /\ call.out.sources.llm = DOMAIN call.llmData

(* C15 amended: _extraction_sources.hybrid is the key set of the merged    *)
(* map as it is before the provenance entry is added, that is the union of *)
(* the key sets of the two inputs; with the provenance key added it is the *)
(* key set of the returned map; .parser and .llm are the key sets of the   *)
(* two input maps.                                                         *)
C15_HybridIsMergedKeySet ==
  call.pc = "merged" =>
    /\ call.out.sources.hybrid =
         DOMAIN call.parserData \cup DOMAIN call.llmData
    /\ call.out.sources.hybrid \cup {ProvKey} = ReturnedKeys(call.out)
    /\ ProvKey \in call.out.sources.hybrid <=> ProvKey \in DOMAIN call.llmData
    /\ call.out.sources.parser = DOMAIN call.parserData
    /\ call.out.sources.llm = DOMAIN call.llmData

(* C15 witness: a parser key and another LLM key merged; the provenance    *)
(* key is in the returned map and not in the hybrid list                   *)
C15_Witness ==
  /\ call.pc = "merged"
  /\ DOMAIN call.parserData = {"a"}
  /\ DOMAIN call.llmData = {"b"}
  /\ call.out.sources.hybrid = {"a", "b"}
  /\ ReturnedKeys(call.out) = {"a", "b", ProvKey}

\* a value that is null or undefined
Nullish(v) == v.type \in {"null", "undefined"}

(* C20: no key of the parser's field map, of the LLM outcome's field map   *)
(* or of the merged field map of a hybrid result maps to null or           *)
(* undefined, whatever extractedData the completion returned.              *)
C20_NoNullFields ==
  call.pc = "merged" =>
    /\ \A key \in DOMAIN call.parserData : ~Nullish(call.parserData[key])
    /\ \A key \in DOMAIN call.llmData : ~Nullish(call.llmData[key])
    /\ \A key \in DOMAIN call.out.fields : ~Nullish(call.out.fields[key])

(* ---------------------------------------------------------------------- *)
(* The two extractors called on their own (SpecExtract)                    *)
(* ---------------------------------------------------------------------- *)

\* a caller-supplied rule (types.ts:67-74); transform says what it does
CustomRule(name, required, transform) ==
  [name |-> name, required |-> required, multiple |-> FALSE,
   transform |-> transform]

(* What a rule's transform does when it is applied: there is none, it      *)
(* returns a value, it throws, or it returns null.                         *)
Transforms == {"none", "value", "throws", "null"}

\* the field names of the caller-supplied rules
CustomNames == {sTitle, sPrice}

CustomRules ==
  {CustomRule(n, q, t) : n \in CustomNames, q \in BOOLEAN, t \in Transforms}

\* the override lists: the empty list and every list of one or two rules
CustomRuleLists ==
  {<<>>} \cup {<<r>> : r \in CustomRules}
         \cup {<<r1, r2>> : r1 \in CustomRules, r2 \in CustomRules}

RuleNames(rules) == {rules[k].name : k \in 1..Len(rules)}

(* The pages handed to applyRules with an override list: each name is      *)
(* found on the page, is not found, or has an extraction that throws (as   *)
(* String methods do on a page whose text is not a string).                *)
CustomPages ==
  UNION {{[hits |-> h, throws |-> t] : t \in SUBSET (CustomNames \ h)} :
           h \in SUBSET CustomNames}

(* The pages handed to applyRules with a built-in rule set: every subset   *)
(* of its fields is found; images and links are found on every page.       *)
BuiltinPages(rules) ==
  {[hits |-> h \cup (RuleNames(rules) \cap {sImages, sLinks}),
    throws |-> {}] : h \in SUBSET RuleNames(rules)}

\* extractFromUrl(url) on each built-in rule set; extractFromUrl(url, rules)
ParserCalls ==
  UNION {{[pc |-> "parsing", page |-> pg, rules |-> defaultRules(c)] :
            pg \in BuiltinPages(defaultRules(c))} : c \in Categories}
  \cup {[pc |-> "parsing", page |-> pg, rules |-> rules] :
          pg \in CustomPages, rules \in CustomRuleLists}

\* extractFromContent on every object the completion may return, or a throw
LlmCalls ==
  {[pc |-> "completing", completion |-> c] :
     c \in CompletionObjects \cup CompletionFailures}

(* extractWithFallback on every outcome of its three collaborator calls    *)
(* (the outcome each call has if it is made)                               *)
FallbackCalls ==
  [pc : {"extracting"},
   primary : CompletionObjects \cup CompletionFailures,
   clean : TextOutcomes,
   fallback : CompletionObjects \cup CompletionFailures]

\* extractFromUrl(url) on every outcome of the page fetch
UrlCalls ==
  {[pc |-> "fetching", fetch |-> f] : f \in FetchOutcomes \cup FetchFailures}

InitExtract ==
  /\ NoJob
  /\ call \in ParserCalls \cup UrlCalls \cup LlmCalls \cup FallbackCalls

\* parser.ts:57-98: extractFromUrl(url) returns after its page fetch
UrlReturns ==
  /\ call.pc = "fetching"
  /\ call' = [pc |-> "fetched", fetch |-> call.fetch,
              out |-> extractFromUrl(call.fetch)]
  /\ UNCHANGED jobVars

\* parser.ts:57-98: extractFromUrl returns a ParsedContent
ParserReturns ==
  /\ call.pc = "parsing"
  /\ call' = [pc |-> "parsed", page |-> call.page, rules |-> call.rules,
              out |-> extractWith(call.page, call.rules)]
  /\ UNCHANGED jobVars

\* llm-extractor.ts:13-74: extractFromContent returns an LLMExtractionResult
LlmReturns ==
  /\ call.pc = "completing"
  /\ call' = [pc |-> "completed", completion |-> call.completion,
              out |-> extractFromContent(call.completion)]
  /\ UNCHANGED jobVars

(* llm-extractor.ts:165-186: extractWithFallback returns; ran records       *)
(* whether the cleaning call and the fallback pass were made.              *)
FallbackReturns ==
  /\ call.pc = "extracting"
  /\ call' = [pc |-> "extracted", primary |-> call.primary,
              clean |-> call.clean, fallback |-> call.fallback,
              ran |-> fallbackRuns(call.primary),
              out |-> extractWithFallback(call.primary, call.fallback)]
  /\ UNCHANGED jobVars

NextExtract == ParserReturns \/ UrlReturns \/ LlmReturns \/ FallbackReturns

SpecExtract == InitExtract /\ [][NextExtract]_vars

\* a confidence that is a number of the interval [0, 1]
InUnitInterval(c) == c.den > 0 /\ 0 <= c.num /\ c.num <= c.den

(* C16: the confidence of every outcome of the rule-based pass and of      *)
(* every outcome of the LLM pass is a number between 0 and 1, for the      *)
(* built-in rule sets, for every override list (the empty one included)    *)
(* and for every object the completion may return.                         *)
C16_ConfidenceInUnitInterval ==
  call.pc \in {"parsed", "completed"} => InUnitInterval(call.out.confidence)

\* the field map the scorer is given: the outcome's fields without metadata
ScoredKeys == Range(call.out.data) \ {sMetadata}

(* C17: the confidence of a ParseOutcome is 0.7 * requiredScore + 0.3 *    *)
(* coverageScore, where requiredScore is the fraction of the required      *)
(* rules whose field is in the field map (1 when no rule is required) and  *)
(* coverageScore is the number of keys of the field map over the number of *)
(* rules; success is true exactly when the confidence is above 0.3.        *)
C17_ConfidenceFormula ==
  call.pc = "parsed" =>
    LET required == {k \in 1..Len(call.rules) : call.rules[k].required}
        present  == {k \in required : call.rules[k].name \in ScoredKeys}
        R        == Cardinality(required)
        N        == Len(call.rules)
        K        == Cardinality(ScoredKeys)
        \* 0.7 * reqNum / reqDen + 0.3 * K / N as one fraction
        reqNum   == IF R = 0 THEN 1 ELSE Cardinality(present)
        reqDen   == IF R = 0 THEN 1 ELSE R
        num      == 7 * reqNum * N + 3 * K * reqDen
        den      == 10 * reqDen * N
        c        == call.out.confidence
    IN  /\ c.num * den = num * c.den
        /\ (c.den = 0) <=> (den = 0)
        /\ call.out.success <=> (c.den > 0 /\ 10 * c.num > 3 * c.den)

(* C17 witness: the ecommerce rules on a page with a title and no price:   *)
(* requiredScore 1/2, coverageScore 2/6, confidence 0.45, success          *)
C17_Witness ==
  /\ call.pc = "parsed"
  /\ call.rules = defaultRules("ecommerce")
  /\ call.page.hits = {sTitle, sImages}
  /\ call.out.confidence.num * 20 = 9 * call.out.confidence.den
  /\ call.out.confidence.den > 0
  /\ call.out.success

(* ---------------------------------------------------------------------- *)
(* The category classifier called on its own (SpecDetect)                  *)
(* ---------------------------------------------------------------------- *)

sAmazonUrl ==
  <<"A","m","a","z","o","n",".","c","o","m","/","d","p","/","B","1">>
sZillowUrl ==
  <<"z","i","l","l","o","w",".","c","o","m","/","h","o","m","e","s">>
sAirbnbUrl ==
  <<"a","i","r","b","n","b",".","c","o","m","/","p","r","o","p","e","r","t",
    "y">>
sHotelUrl == <<"H","O","T","E","L",".","c","o","m">>
sPharmacyUrl ==
  <<"p","h","a","r","m","a","c","y",".","i","o","/","s","t","o","r","e">>
sHealthUrl == <<"h","e","a","l","t","h",".","g","o","v">>
sCartText == <<"A","d","d"," ","t","o"," ","c","a","r","t">>
sBedroomsText == <<"3"," ","b","e","d","r","o","o","m","s">>
sNightsText ==
  <<"2"," ","n","i","g","h","t","s",","," ","4"," ","g","u","e","s","t","s">>
sDosageText == <<"D","o","s","a","g","e",":"," ","5"," ","m","g">>
sImgText == <<"i","m","g">>
sListingText ==
  <<"M","L","S"," ","l","i","s","t","i","n","g",","," ","c","h","e","c","k",
    "-","i","n">>
sAmazonDp     == <<"a","m","a","z","o","n",".","c","o","m","/","d","p","/">>
sAddToCart    == <<"a","d","d"," ","t","o"," ","c","a","r","t">>

(* URLs with a keyword of one category, of two categories, in upper case,  *)
(* and of none                                                             *)
SampleUrls ==
  {sAmazonUrl, sZillowUrl, sAirbnbUrl, sHotelUrl, sPharmacyUrl, sHealthUrl,
   sShopUrl, sPlainUrl, <<>>}

(* texts with keywords of one category, of two categories, with a keyword  *)
(* inside a longer word, and with none                                     *)
SampleContents ==
  {sCartText, sBedroomsText, sNightsText, sDosageText, sImgText,
   sListingText, sSaleText, sPlainText, <<>>}

InitDetect ==
  /\ NoJob
  /\ call \in [pc : {"detecting"}, url : SampleUrls, content : SampleContents]

\* parser.ts:65: detectRuleSet(url, extract.text) returns
DetectRuleSet ==
  /\ call.pc = "detecting"
  /\ call' = [pc |-> "detected", url |-> call.url, content |-> call.content,
              out |-> detectRuleSet(call.url, call.content)]
  /\ UNCHANGED jobVars

NextDetect == DetectRuleSet

SpecDetect == InitDetect /\ [][NextDetect]_vars

\* the categories in the order of their priority
CategoryOrder == <<"ecommerce", "realestate", "travel", "healthcare">>

\* category has a keyword in the lower-cased URL or the lower-cased content
HasKeyword(category, url, content) ==
  \/ \E k \in 1..Len(UrlKeywords(category)) :
       Includes(ToLowerCase(url), UrlKeywords(category)[k])
  \/ \E k \in 1..Len(ContentKeywords(category)) :
       Includes(ToLowerCase(content), ContentKeywords(category)[k])

(* C18: detectRuleSet returns the rule set of the first category, in the   *)
(* order ecommerce, realestate, travel, healthcare, that has a keyword in  *)
(* the lower-cased URL or content, and the general rule set when none has; *)
(* a URL containing "amazon.com/dp/" with content containing "add to       *)
(* cart" selects ecommerce.                                                *)
C18_FirstMatchingCategory ==
  call.pc = "detected" =>
    LET matching == {k \in 1..Len(CategoryOrder) :
                       HasKeyword(CategoryOrder[k], call.url, call.content)}
        first    == CHOOSE k \in matching : \A j \in matching : k <= j
    IN  /\ call.out = IF matching = {}
                      THEN defaultRules("general")
                      ELSE defaultRules(CategoryOrder[first])
        /\ (/\ Includes(ToLowerCase(call.url), sAmazonDp)
            /\ Includes(ToLowerCase(call.content), sAddToCart))
           => call.out = defaultRules("ecommerce")

(* C18 witness: a URL with one realestate keyword and two travel keywords  *)
(* on a text with two more travel keywords selects realestate              *)
C18_Witness ==
  /\ call.pc = "detected"
  /\ call.url = sAirbnbUrl
  /\ call.content = sNightsText
  /\ HasKeyword("travel", call.url, call.content)
  /\ call.out = defaultRules("realestate")

(* C18 example: the URL with "amazon.com/dp/" and the text "Add to cart"   *)
C18_Example ==
  /\ call.pc = "detected"
  /\ call.url = sAmazonUrl
  /\ call.content = sCartText
  /\ call.out = defaultRules("ecommerce")

\* the keys of the parser's field map, in insertion order
ParsedKeys == SubSeq(call.out.data, 1, Len(call.out.data) - 1)

\* rule k of the call throws in its extraction or transform or has no match
RuleFails(k) ==
  \/ call.rules[k].name \in call.page.throws
  \/ call.rules[k].name \notin call.page.hits
  \/ call.rules[k].transform = "throws"

\* the rule list without its rule k
Without(rules, k) == SubSeq(rules, 1, k - 1) \o SubSeq(rules, k + 1, Len(rules))

(* C19: when a rule of the list throws in its extraction or its transform, *)
(* or finds no match, its field is not in the field map (no other rule of  *)
(* the list having its name) and the field map is the one the list without *)
(* that rule yields; the pass returns its normal outcome, the field map    *)
(* followed by metadata.                                                   *)
C19_RuleFailuresIsolated ==
  call.pc = "parsed" =>
    /\ call.out.data[Len(call.out.data)] = sMetadata
    /\ \A k \in 1..Len(call.rules) :
         RuleFails(k) =>
           /\ (\A j \in 1..Len(call.rules) :
                 j # k => call.rules[j].name # call.rules[k].name)
              => call.rules[k].name \notin Range(ParsedKeys)
           /\ ParsedKeys = applyRules(call.page, Without(call.rules, k))

(* C19 witness: a title rule whose transform throws, before a price rule   *)
(* that finds a price: the field map holds the price only                  *)
C19_Witness ==
  /\ call.pc = "parsed"
  /\ call.rules = << CustomRule(sTitle, TRUE, "throws"),
                     CustomRule(sPrice, FALSE, "none") >>
  /\ call.page.hits = {sTitle, sPrice}
  /\ RuleFails(1)
  /\ ParsedKeys = <<sPrice>>

\* the failure LLMOutcome: success false, confidence 0, no fields, errors
FailureOutcome(out) ==
  /\ ~out.success
  /\ out.confidence = Rat(0, 1)
  /\ out.data = "empty"
  /\ out.errors # "none"

(* C21: when the structured-completion call fails, extractFromContent      *)
(* returns the failure outcome (success false, confidence 0, empty field   *)
(* map, the error captured in errors) and does not throw; so does          *)
(* extractWithFallback when both of its passes fail.                       *)
C21_LlmFailureIsAnOutcome ==
  /\ (call.pc = "completed" /\ call.completion \in CompletionFailures)
       => FailureOutcome(call.out)
  /\ (/\ call.pc = "extracted"
      /\ call.primary \in CompletionFailures
      /\ call.fallback \in CompletionFailures)
       => FailureOutcome(call.out)

\* C21 witness: the completion throws an Error and the outcome is a failure
C21_Witness ==
  /\ call.pc = "completed"
  /\ call.completion = "throw"
  /\ FailureOutcome(call.out)
  /\ call.out.errors = "error.message"

\* the confidence the outcome of one pass has, from the completion's outcome
PassConfidence(completion) ==
  IF completion \in CompletionFailures THEN Rat(0, 1)
  ELSE objectConfidence(completion)

(* C22: the fallback pass runs exactly when the primary confidence is      *)
(* below 0.5; the result is the fallback outcome with the cleaned-content  *)
(* marker exactly when the fallback ran and its confidence is strictly     *)
(* higher than the primary's, and otherwise the unmodified primary         *)
(* outcome; a failed fallback never replaces the primary outcome.          *)
C22_FallbackOnlyWhenBetter ==
  call.pc = "extracted" =>
    LET p    == PassConfidence(call.primary)
        f    == PassConfidence(call.fallback)
        wins == call.ran /\ f.num * p.den > p.num * f.den
    IN  /\ call.ran <=> 10 * p.num < 5 * p.den
        /\ wins => call.out =
             [extractFromContent(call.fallback) EXCEPT !.cleaned = TRUE]
        /\ ~wins => call.out = extractFromContent(call.primary)
        /\ call.fallback \in CompletionFailures
             => call.out = extractFromContent(call.primary)

(* C23: when the page fetch fails or a step of the rule-based pass throws, *)
(* extractFromUrl returns a ParseOutcome with success false, confidence 0, *)
(* an empty field map and a non-empty errors list; otherwise it returns a  *)
(* ParseOutcome without errors.                                            *)
C23_ParseFailureIsAnOutcome ==
  call.pc = "fetched" =>
    IF call.fetch \in FetchFailures
    THEN /\ ~call.out.success
         /\ call.out.confidence = Rat(0, 1)
         /\ call.out.data = <<>>
         /\ call.out.errors # "none"
    ELSE /\ call.out.errors = "none"
         /\ call.out.data # <<>>

\* C23 witness: the page has no extract and the outcome is the failure one
C23_Witness ==
  /\ call.pc = "fetched"
  /\ call.fetch = "noExtract"
  /\ ~call.out.success
  /\ call.out.data = <<>>

\* the number of batches of the job: ceil(total / batchSize)
Batches == (total + batchSize - 1) \div batchSize

(* C24: the inter-batch delay is awaited once between two consecutive      *)
(* batches and nowhere else: it begins only when every task of a batch has *)
(* finished and another batch remains, the next batch starts only when a   *)
(* delay ends, and the loop ends without a delay after the last batch, so  *)
(* a job with B batches that runs through them has awaited B - 1 delays    *)
(* (i has advanced B - 1 times).                                           *)
C24_DelayBetweenBatchesOnly ==
  [][/\ (jpc' = "delay" /\ jpc # "delay") =>
          /\ jpc = "batch"
          /\ \A u \in batch : tasks[u].pc = "done"
          /\ i + batchSize < total
     /\ (jpc = "delay" /\ jpc' # "delay") =>
          /\ jpc' = "batch"
          /\ i' = i + batchSize
          /\ \E u \in Urls : tasks'[u].pc = "processing"
     /\ i' # i => jpc = "delay"
     /\ (jpc = "batch" /\ jpc' = "setCompleted") =>
          /\ i + batchSize >= total
          /\ i = batchSize * (Batches - 1)]_vars

\* C24 witness: a job of two batches has left its loop after one delay
C24_Witness ==
  /\ jpc = "setCompleted"
  /\ Batches = 2
  /\ i = batchSize

(* An exception raised in the per-URL pipeline that the step raising it    *)
(* does not turn into an outcome of its own: llmOnlyExtraction throws      *)
(* again what its page fetch threw.                                        *)
UnrecoveredException == call.branch = "llm" /\ call.run.fetch = "throw"

(* C25: processUrl returns a result whose source is parser, llm, hybrid or *)
(* failed; the source is failed exactly when an exception was raised at a  *)
(* step and not recovered by that step, and then the content is empty and  *)
(* the explanation is the error message.                                   *)
C25_FailedIffUnrecovered ==
  call.pc = "returned" =>
    /\ call.result.source \in {"parser", "llm", "hybrid", "failed"}
    /\ call.result.source = "failed" <=> UnrecoveredException
    /\ call.result.source = "failed" =>
         /\ call.result.content = "empty"
         /\ call.result.explanation = "error"

(* C25 witness: the parser's page fetch and the one of the LLM-only branch *)
(* both throw, and the result has source failed                            *)
C25_Witness ==
  /\ call.pc = "returned"
  /\ call.fetch = "throw"
  /\ UnrecoveredException
  /\ call.result.source = "failed"
  /\ call.result.content = "empty"

\* C25: a recovered exception: the hybrid branch's page fetch throws
C25_RecoveredWitness ==
  /\ call.pc = "returned"
  /\ call.branch = "hybrid"
  /\ call.run.fetch = "throw"
  /\ call.result.source = "parser"

(* ---------------------------------------------------------------------- *)
(* The title and price rules called on their own (SpecRule)                *)
(* ---------------------------------------------------------------------- *)

\* the characters String.prototype.trim removes, as far as the texts have them
WhiteSpace == {" ", "\n", "\t"}

\* String.prototype.trim
RECURSIVE Trim(_)
Trim(s) ==
  IF Len(s) = 0 THEN s
  ELSE IF Head(s) \in WhiteSpace THEN Trim(Tail(s))
  ELSE IF s[Len(s)] \in WhiteSpace THEN Trim(SubSeq(s, 1, Len(s) - 1))
  ELSE s

\* String.prototype.split('\n'): the lines of a text
RECURSIVE Split(_)
Split(text) ==
  IF \E k \in 1..Len(text) : text[k] = "\n"
  THEN LET k == CHOOSE n \in 1..Len(text) :
                  /\ text[n] = "\n"
                  /\ \A m \in 1..(n - 1) : text[m] # "\n"
       IN  <<SubSeq(text, 1, k - 1)>> \o Split(SubSeq(text, k + 1, Len(text)))
  ELSE <<text>>

\* what a rule's extraction yields: null, a string, or a list of strings
Null == [type |-> "null"]

String(chars) == [type |-> "string", chars |-> chars]

List(items) == [type |-> "list", items |-> items]

\* parser.ts:196-200
extractTitle(text) ==
  LET NonBlank(line) == Trim(line) # <<>>
      lines          == SelectSeq(Split(text), NonBlank)
  IN  IF Len(lines) = 0 THEN Null
      ELSE IF Trim(lines[1]) = <<>> THEN Null
      ELSE String(Trim(lines[1]))

\* parser.ts:174-175  case 'title': headings[0] || this.extractTitle(text)
titleRule(headings, text) ==
  IF Len(headings) > 0 /\ headings[1] # <<>>
  THEN String(headings[1])
  ELSE extractTitle(text)

\* parser.ts:202-209  text.match(/\$[\d,]+\.?\d*/g), multiple ? all : first
Digits == {"0", "1", "2", "3", "4", "5", "6", "7", "8", "9"}

\* the last index of the longest run of characters of set starting at k
RECURSIVE RunEnd(_, _, _)
RunEnd(text, k, set) ==
  IF k <= Len(text) /\ text[k] \in set
  THEN RunEnd(text, k + 1, set)
  ELSE k - 1

(* The end of the match of /\$[\d,]+\.?\d*/ that starts at index k, or 0    *)
(* when none starts there.  Every quantifier is greedy and what follows it *)
(* may be empty, so the pattern never backtracks.                          *)
MatchEnd(text, k) ==
  IF text[k] # "$" THEN 0
  ELSE LET e1 == RunEnd(text, k + 1, Digits \cup {","})
           e2 == IF e1 < Len(text) /\ text[e1 + 1] = "." THEN e1 + 1 ELSE e1
       IN  IF e1 = k THEN 0 ELSE RunEnd(text, e2 + 1, Digits)

\* String.prototype.match with the g flag, scanning from index k
RECURSIVE MatchAll(_, _)
MatchAll(text, k) ==
  IF k > Len(text) THEN <<>>
  ELSE IF MatchEnd(text, k) = 0 THEN MatchAll(text, k + 1)
  ELSE <<SubSeq(text, k, MatchEnd(text, k))>>
         \o MatchAll(text, MatchEnd(text, k) + 1)

\* extractPrices that returns the last match when multiple is not set
extractPrices_lastMatch(text, multiple) ==
  LET matches == MatchAll(text, 1)
  IN  IF Len(matches) = 0 THEN Null
      ELSE IF multiple THEN List(matches)
      ELSE String(matches[Len(matches)])

\* parser.ts:202-209
extractPrices(text, multiple) ==
  LET matches == MatchAll(text, 1)
  IN  IF Len(matches) = 0 THEN Null
      ELSE IF multiple THEN List(matches)
      ELSE String(matches[1])

sHeadingA == <<"M","u","g">>
sHeadingB == <<"C","u","p">>
sWidgetText ==
  <<"W","i","d","g","e","t"," ","P","r","o","\n","$","4","9",".","9","9",
    "\n","$","7","9",".","9","9","\n","4",".","5"," ","o","u","t"," ","o",
    "f"," ","5"," ","s","t","a","r","s","\n">>
sIndentedText == <<" ","\n","	"," ","T","e","a"," ","p","o","t"," ","\n","x">>
sBlankText == <<" ","\n","	","\n">>
sOneLineText == <<"T","e","a">>
sCommaText ==
  <<"F","r","o","m"," ","$","1",",","2","0","0",".","5","0",","," ","n","o",
    "w"," ","$","3",".">>
sDollarText == <<"U","S","$"," ","o","r"," ","$",".","5">>
sDotsText == <<"$","7",".","5",".","2","5">>
s4999 == <<"$","4","9",".","9","9">>
s7999 == <<"$","7","9",".","9","9">>
s120050 == <<"$","1",",","2","0","0",".","5","0">>
s3dot == <<"$","3",".">>
s75 == <<"$","7",".","5">>

\* heading lists of up to two headings, an empty heading among them
HeadingLists ==
  {<<>>} \cup {<<h>> : h \in {<<>>, sHeadingA, sHeadingB}}
         \cup {<<h1, h2>> : h1 \in {<<>>, sHeadingA, sHeadingB},
                            h2 \in {<<>>, sHeadingA, sHeadingB}}

(* texts with blank and indented lines, with no, one and several prices,   *)
(* and with a dollar sign that starts no price                             *)
RuleTexts ==
  {<<>>, sWidgetText, sIndentedText, sBlankText, sOneLineText, sCommaText,
   sDollarText, sDotsText}

TitleCalls == [pc : {"title"}, headings : HeadingLists, text : RuleTexts]

PriceCalls == [pc : {"price"}, text : RuleTexts, multiple : BOOLEAN]

InitRule ==
  /\ NoJob
  /\ call \in TitleCalls \cup PriceCalls

\* parser.ts:152, 174-175: extractByRule returns for the title rule
TitleRule ==
  /\ call.pc = "title"
  /\ call' = [pc |-> "titled", headings |-> call.headings, text |-> call.text,
              out |-> titleRule(call.headings, call.text)]
  /\ UNCHANGED jobVars

\* parser.ts:152, 177-178: extractByRule returns for the price rule
PriceRule ==
  /\ call.pc = "price"
  /\ call' = [pc |-> "priced", text |-> call.text, multiple |-> call.multiple,
              out |-> extractPrices(call.text, call.multiple)]
  /\ UNCHANGED jobVars

NextRule == TitleRule \/ PriceRule

SpecRule == InitRule /\ [][NextRule]_vars

(* C26: the title is the first non-empty heading when the headings list    *)
(* has one at any position, otherwise the first non-blank line of the text *)
(* trimmed; the field is omitted (the value is null) only when there is    *)
(* neither.                                                                *)
C26_TitleFromFirstNonEmptyHeading ==
  call.pc = "titled" =>
    LET nonEmpty == {k \in 1..Len(call.headings) : call.headings[k] # <<>>}
        lines    == Split(call.text)
        nonBlank == {k \in 1..Len(lines) :
                       \E j \in 1..Len(lines[k]) :
                         lines[k][j] \notin WhiteSpace}
        Least(S) == CHOOSE k \in S : \A j \in S : k <= j
    IN  IF nonEmpty # {}
        THEN call.out = String(call.headings[Least(nonEmpty)])
        ELSE IF nonBlank # {}
        THEN call.out = String(Trim(lines[Least(nonBlank)]))
        ELSE call.out = Null

\* a price starts at index k: a dollar sign followed by a digit or a comma
PriceStartsAt(text, k) ==
  /\ text[k] = "$"
  /\ k < Len(text)
  /\ text[k + 1] \in Digits \cup {","}

\* the matches of the currency pattern in the sample texts, in document order
ExpectedPrices(text) ==
  CASE text = sWidgetText -> <<s4999, s7999>>
    [] text = sCommaText  -> <<s120050, s3dot>>
    [] text = sDotsText   -> <<s75>>
    [] OTHER              -> <<>>

(* C27: with multiple set the price field is the list of all matches of    *)
(* the currency pattern in document order, otherwise it is the first match *)
(* alone, and when nothing matches the field is omitted (the value is      *)
(* null); on the text "Widget Pro\n$49.99\n$79.99\n..." with multiple set  *)
(* it is ["$49.99", "$79.99"].                                             *)
C27_PricesInDocumentOrder ==
  call.pc = "priced" =>
    LET expected == ExpectedPrices(call.text)
    IN  /\ call.out = Null <=>
             ~\E k \in 1..Len(call.text) : PriceStartsAt(call.text, k)
        /\ expected = <<>> => call.out = Null
        /\ (expected # <<>> /\ call.multiple) => call.out = List(expected)
        /\ (expected # <<>> /\ ~call.multiple) => call.out = String(expected[1])

\* C27 witness: the two prices of the example text, multiple set
C27_Witness ==
  /\ call.pc = "priced"
  /\ call.text = sWidgetText
  /\ call.multiple
  /\ call.out = List(<<s4999, s7999>>)

(* ---------------------------------------------------------------------- *)
(* The job: counters and writes of the batch tasks (Spec)                  *)
(* ---------------------------------------------------------------------- *)

\* the URLs for which an extraction result has been persisted
SavedUrls == {u \in Urls : extractionResults[u] = "saved"}

(* C28: whenever no URL task is in flight, succeeded + failed = processed  *)
(* <= total, and the URLs with a persisted extraction result are as many   *)
(* as the URLs counted as succeeded, also when a save or a log write has   *)
(* failed.                                                                 *)
C28_EachUrlCountedOnce ==
  InFlight = {} =>
    /\ successCount + failedCount = processedCount
    /\ processedCount <= total
    /\ Cardinality(SavedUrls) = successCount

\* the progress counters of the job record
Progress(rec) ==
  <<rec.totalPages, rec.processedPages, rec.successPages, rec.failedPages>>

(* C29: once the status of the job is completed or failed, no task writes  *)
(* to the persistence collaborator any more: the progress counters, the    *)
(* extraction results and the page error logs of the URLs stay as they     *)
(* are, also for the sibling tasks of a task that made the job fail.       *)
C29_NoTaskWritesAfterEnd ==
  [][dbJob.status \in {"completed", "failed"} =>
       /\ Progress(dbJob') = Progress(dbJob)
       /\ extractionResults' = extractionResults
       /\ pageLogs' \cap Urls = pageLogs \cap Urls]_vars

(* ---------------------------------------------------------------------- *)
(* expandUrls (hybrid-engine.ts:255-278) called on its own (SpecExpand)    *)
(* ---------------------------------------------------------------------- *)

\* hybrid-engine.ts:266  this.settings.maxPages || 10
defaultPaginationPages == 10

\* hybrid-engine.ts:277  this.settings.maxPages || 50
defaultMaxPages == 50

\* the largest maxPages setting and the longest target list of the calls
MaxPagesSetting == 3

MaxTargets == 2

\* the URLs of the target lists, and a URL only pagination links lead to
TargetUrls == {1, 2}

LinkedUrl == 3

\* Array.prototype.slice(0, n) for n >= 0
Take(seq, n) == SubSeq(seq, 1, IF n < Len(seq) THEN n ELSE Len(seq))

\* [...new Set(seq)]: the first occurrence of every element, in order
RECURSIVE Unique(_)
Unique(seq) ==
  IF Len(seq) = 0 THEN <<>>
  ELSE LET rest == Unique(SubSeq(seq, 1, Len(seq) - 1))
           last == seq[Len(seq)]
       IN  IF \E k \in 1..Len(rest) : rest[k] = last
           THEN rest
           ELSE Append(rest, last)

(* What the page fetch of handlePagination does for a URL: it throws, or   *)
(* it returns the page's links; links holds those that match the           *)
(* pagination pattern (parser.ts:272-273), in page order.                  *)
PaginationOutcomes ==
  {[threw |-> TRUE, links |-> <<>>],
   [threw |-> FALSE, links |-> <<>>],
   [threw |-> FALSE, links |-> <<LinkedUrl>>],
   [threw |-> FALSE, links |-> <<2, 1, LinkedUrl>>]}

\* parser.ts:265-282
handlePagination(url, maxPages, fetched) ==
  IF fetched.threw THEN <<url>>
  ELSE <<url>> \o Take(fetched.links, maxPages - 1)

\* hybrid-engine.ts:258-273: allUrls after the loop over targetUrls
RECURSIVE allUrlsOf(_, _, _)
allUrlsOf(targetUrls, settings, pages) ==
  IF Len(targetUrls) = 0 THEN <<>>
  ELSE LET url  == Head(targetUrls)
           rest == allUrlsOf(Tail(targetUrls), settings, pages)
       IN  IF settings.followPagination
           THEN LET paginationUrls ==
                      handlePagination(
                        url,
                        IF settings.maxPages # 0 THEN settings.maxPages
                        ELSE defaultPaginationPages,
                        pages[url])
                IN  <<url>> \o Tail(paginationUrls) \o rest
           ELSE <<url>> \o rest

\* hybrid-engine.ts:255-278
expandUrls(targetUrls, settings, pages) ==
  Take(Unique(allUrlsOf(targetUrls, settings, pages)),
       IF settings.maxPages # 0 THEN settings.maxPages ELSE defaultMaxPages)

\* hybrid-engine.ts:262-266: the page fetches made during the expansion
fetchesOf(targetUrls, settings) ==
  IF settings.followPagination THEN Len(targetUrls) ELSE 0

TargetLists ==
  UNION {[1..n -> TargetUrls] : n \in 0..MaxTargets}

InitExpand ==
  /\ NoJob
  /\ call \in [pc : {"expanding"},
               targetUrls : TargetLists,
               settings : [maxPages : 0..MaxPagesSetting,
                           followPagination : BOOLEAN],
               pages : [TargetUrls -> PaginationOutcomes]]

\* hybrid-engine.ts:39: expandUrls returns
ExpandUrls ==
  /\ call.pc = "expanding"
  /\ call' = [pc |-> "expanded", targetUrls |-> call.targetUrls,
              settings |-> call.settings, pages |-> call.pages,
              fetches |-> fetchesOf(call.targetUrls, call.settings),
              out |-> expandUrls(call.targetUrls, call.settings, call.pages)]
  /\ UNCHANGED jobVars

NextExpand == ExpandUrls

SpecExpand == InitExpand /\ [][NextExpand]_vars

\* the pagination fetch of every URL returns no link
NoLinks == [u \in TargetUrls |-> [threw |-> FALSE, links |-> <<>>]]

(* C30: the list expandUrls returns has no duplicates, at most maxPages    *)
(* entries, the URLs in the order in which they are first encountered,     *)
(* and, when maxPages >= 1 and there is a target, the first target URL     *)
(* first; a pagination fetch that fails has the effect of one that finds   *)
(* no link; without followPagination no fetch is made and the list is the  *)
(* one of the targets alone.                                               *)
C30_ExpandedListBounded ==
  call.pc = "expanded" =>
    /\ \A j, k \in 1..Len(call.out) : j # k => call.out[j] # call.out[k]
    /\ Len(call.out) <= call.settings.maxPages
    /\ \E n \in 0..Len(Unique(allUrlsOf(call.targetUrls, call.settings,
                                        call.pages))) :
         call.out = SubSeq(Unique(allUrlsOf(call.targetUrls, call.settings,
                                            call.pages)), 1, n)
    /\ (call.settings.maxPages >= 1 /\ Len(call.targetUrls) > 0)
         => (Len(call.out) > 0 /\ call.out[1] = call.targetUrls[1])
    /\ \A u \in TargetUrls :
         call.pages[u].threw =>
           call.out = expandUrls(call.targetUrls, call.settings,
                                 [call.pages EXCEPT ![u].threw = FALSE])
    /\ ~call.settings.followPagination =>
         /\ call.fetches = 0
         /\ call.out = expandUrls(call.targetUrls, call.settings, NoLinks)

====
